---- MODULE Spec2Model ----
(***************************************************************************)
(* Model of the adaptive assessment engine of app.py: the question bank,   *)
(* the one-time diagnostic gate, quiz assembly and the quiz attempt        *)
(* lifecycle.  Every request handler runs in its own database session, so  *)
(* a handler is split at the points where it reads the store and where it  *)
(* commits: two requests may interleave between the two.  The requests in  *)
(* flight form a bag: a handler thread has no identity beyond the request  *)
(* it serves.                                                              *)
(***************************************************************************)
EXTENDS Integers, Sequences, FiniteSets, Bags

\* questions, diagnostics, attempts: the rows of the three tables, a row's
\*   id being its position (no row is ever deleted)
\* now: the clock; every reading that stamps an attempt advances it
\* inflight: the requests that have read the store and not yet committed
\* last: the response sent by the latest step
VARIABLES questions, diagnostics, attempts, now, inflight, last

vars == <<questions, diagnostics, attempts, now, inflight, last>>

(* ------------------------------ bounds -------------------------------- *)

\* requests that may be between their read and their commit at one time
MaxInflight == 2
\* student accounts known to the account provider
NumStudents == 1
\* questions a teacher creates on top of the seeded diagnostic questions
MaxQuestions == 1
\* readings of the clock (datetime.utcnow) that stamp a quiz attempt: one
\* per start and one per submission
MaxTime == 3
\* questions a teacher adds to a filled bank
MaxBankNew == 1
\* submissions committed on one started attempt
MaxSubmits == 4
\* questions, passages among them, a teacher creates in an empty bank
MaxPassageBank == 3

(* --------------------------- program constants ------------------------ *)

\* range(5): the diagnostic questions loaded before the first request
SeedCount == 5
\* .limit(10)
QuizCap == 10
\* random.randint(50, 95)
ScoreLo == 50
ScoreHi == 95
\* if score >= 4 / elif score >= 2
HardMin == 4
IntermediateMin == 2

\* a nullable column holding no value
NULL == << >>

Teachers == {1}
Students == 2..(1 + NumStudents)
Users == Teachers \cup Students

\* User.role
Role(u) == IF u \in Teachers THEN "teacher" ELSE "student"

Difficulties == {"diagnostic", "easy", "intermediate", "hard"}
Levels == {"easy", "intermediate", "hard"}

(* ----------------------------- question bank -------------------------- *)

\* Question(...): the columns the engine reads
Question(t, d, s, g, isp, pid) ==
    [teacher_id |-> t, difficulty |-> d, subject |-> s, grade |-> g,
     is_passage |-> isp, passage_id |-> pid]

\* create_db_and_admin: five diagnostic questions of teacher 1
SeedBank == [i \in 1..SeedCount |->
                Question(1, "diagnostic", "General", "All", FALSE, NULL)]

(* ---------------------------- diagnostic gate ------------------------- *)

\* DiagnosticAttempt.query.filter_by(student_id=...): the rows of a student
DiagnosticOf(u) == {i \in 1..Len(diagnostics) : diagnostics[i].student_id = u}

\* .first() is truthy
HasCompleted(u) == DiagnosticOf(u) # {}

\* diagnostic_check.recommended_level, of the first row
RecommendedLevel(u) ==
    diagnostics[CHOOSE i \in DiagnosticOf(u) :
                    \A j \in DiagnosticOf(u) : i <= j].recommended_level

\* the constraint dropped: every insert is accepted
UniqueViolationOff(u) == FALSE

\* unique=True on DiagnosticAttempt.student_id: an insert for a student who
\* has a committed row is refused
UniqueViolation(u) == \E i \in 1..Len(diagnostics) : diagnostics[i].student_id = u

\* field names are strings, modelled as sequences of characters
AnswerPrefix == <<"a", "n", "s", "w", "e", "r", "_">>

\* str.startswith
StartsWith(k, p) == Len(k) >= Len(p) /\ SubSeq(k, 1, Len(p)) = p

\* the field names of a diagnostic form: answer_<id> for the first k seeded
\* questions, with or without a field whose name is no answer field
Digits == <<"1", "2", "3", "4", "5">>
AnswerKeys(k) == {AnswerPrefix \o <<Digits[i]>> : i \in 1..k}
OtherKeys == {<<"a", "n", "s", "w", "e", "r", "s">>}
Forms == {AnswerKeys(k) \cup x : k \in 0..SeedCount, x \in SUBSET OtherKeys}

\* sum(1 for q_id, ans in request.form.items() if q_id.startswith('answer_'))
RawScore(form) == Cardinality({k \in form : StartsWith(k, AnswerPrefix)})

\* the ladder with its first test strict
RecommendStrict(score) ==
    IF score > HardMin THEN "hard"
    ELSE IF score >= IntermediateMin THEN "intermediate"
    ELSE "easy"

\* the if / elif / else ladder over the mock score
Recommend(score) ==
    IF score >= HardMin THEN "hard"
    ELSE IF score >= IntermediateMin THEN "intermediate"
    ELSE "easy"

(* ------------------------------ assembler ----------------------------- *)

\* the rows of a query without ORDER BY come in an order the engine picks:
\* a forward or a backward scan of the primary key
Ascending(n) == [i \in 1..n |-> i]
Descending(n) == [i \in 1..n |-> n + 1 - i]
ScanOrders(n) == {Ascending(n), Descending(n)}

\* Question.difficulty.in_([recommended_level, 'intermediate']),
\* Question.subject == 'Physics', Question.grade == '10th'
Matches(q, level) ==
    /\ q.difficulty \in {level, "intermediate"}
    /\ q.subject = "Physics"
    /\ q.grade = "10th"

RECURSIVE FilterIds(_, _, _)
FilterIds(bank, order, level) ==
    IF order = << >> THEN << >>
    ELSE IF Matches(bank[Head(order)], level)
         THEN <<Head(order)>> \o FilterIds(bank, Tail(order), level)
         ELSE FilterIds(bank, Tail(order), level)

\* the query without its limit
LimitOff(s, n) == s

\* .limit(n)
Limit(s, n) == IF Len(s) <= n THEN s ELSE SubSeq(s, 1, n)

\* the ids of the questions the quiz query returns for one scan order
Assemble(bank, order, level) == Limit(FilterIds(bank, order, level), QuizCap)

(* ------------------------------ attempts ------------------------------ *)

\* an attempt born as a practice attempt
NewAttemptPractice(u, t) ==
    [student_id |-> u, subject |-> "Physics", start_time |-> t,
     end_time |-> NULL, is_practice |-> TRUE, score |-> 0]

\* QuizAttempt(student_id=..., subject='Physics') with the column defaults
NewAttempt(u, t) ==
    [student_id |-> u, subject |-> "Physics", start_time |-> t,
     end_time |-> NULL, is_practice |-> FALSE, score |-> 0]

\* random.randint(a, b), drawn at the two ends of the closed range
RandInt(a, b) == {a, b}

\* the score submit_quiz assigns
DrawScores(practice) == IF practice THEN {0} ELSE RandInt(ScoreLo, ScoreHi)

\* the UPDATE a session flushes carries only the columns whose value
\* differs from the value the session loaded
Flush(row, loaded, assigned) ==
    [f \in DOMAIN row |->
        IF f \in DOMAIN assigned /\ assigned[f] # loaded[f]
        THEN assigned[f] ELSE row[f]]

(* ------------------------------ requests ------------------------------ *)

\* the response of the latest step, when it sent none
NoResp == [op |-> "none", user |-> 0, outcome |-> "none"]

\* what the first part of a handler decides: a response, or a record to
\* commit
Reply(op, u, outcome) == [reply |-> [op |-> op, user |-> u, outcome |-> outcome]]
Go(r) == [go |-> r]

\* a handler thread is free to take a request
Free == BagCardinality(inflight) < MaxInflight

InFlight(kind) == {r \in BagToSet(inflight) : r.pc = kind}

\* the request ends with a response, or goes on to its commit and has sent
\* no response yet
Apply(d) ==
    IF "reply" \in DOMAIN d
    THEN last' = d.reply /\ UNCHANGED inflight
    ELSE inflight' = inflight (+) SetToBag({d.go}) /\ last' = NoResp

\* the request ends: its session is discarded
Finish(r) == inflight' = inflight (-) SetToBag({r})

Init ==
    /\ questions = SeedBank
    /\ diagnostics = << >>
    /\ attempts = << >>
    /\ now = 0
    /\ inflight = EmptyBag
    /\ last = NoResp

(* --------------------------- create_question -------------------------- *)

\* form.passage_id.choices: no passage, or a passage of the current teacher
PassageChoices(u) ==
    {NULL} \cup {<<i>> : i \in {j \in 1..Len(questions) :
                    questions[j].teacher_id = u /\ questions[j].is_passage}}

\* form.validate_on_submit(): a POST whose required fields are filled and
\* whose passage selection is one of the choices offered
ValidQuestionForm(u, method, s, g, pid) ==
    /\ method = "POST"
    /\ s # ""
    /\ g # ""
    /\ pid \in PassageChoices(u)

\* the posted selection kept whatever the question type
PassageIdKept(isp, pid) == pid

\* form.passage_id.data if not form.is_passage.data and form.passage_id.data
\* else None
PassageIdOf(isp, pid) == IF ~isp /\ pid # NULL THEN pid ELSE NULL

\* create_question: one read of the passages and one insert; questions are
\* never changed or removed, so the two do not race with anything
CreateQuestion(cap, u, method, d, s, g, isp, pid) ==
    /\ Len(questions) < SeedCount + cap
    /\ IF Role(u) # "teacher"
       THEN /\ last' = Reply("create_question", u, "access_denied").reply
            /\ UNCHANGED questions
       ELSE IF ~ValidQuestionForm(u, method, s, g, pid)
       THEN /\ last' = Reply("create_question", u, "form").reply
            /\ UNCHANGED questions
       ELSE /\ questions' = Append(questions,
                   Question(u, d, s, g, isp, PassageIdOf(isp, pid)))
            /\ last' = Reply("create_question", u, "question_saved").reply
    /\ UNCHANGED <<diagnostics, attempts, now, inflight>>

(* -------------------------- student_dashboard ------------------------- *)

\* student_dashboard: the page shows whether the diagnostic is completed
StudentDashboard(u) ==
    /\ Free
    /\ last' = IF Role(u) # "student"
               THEN Reply("student_dashboard", u, "access_denied").reply
               ELSE IF HasCompleted(u)
               THEN Reply("student_dashboard", u, "completed").reply
               ELSE Reply("student_dashboard", u, "not_completed").reply
    /\ UNCHANGED <<questions, diagnostics, attempts, now, inflight>>

(* --------------------------- diagnostic_quiz -------------------------- *)

\* the handler without its test for an existing record
DiagnosticGateNoCheck(u, method, form) ==
    IF Role(u) # "student"
    THEN Reply("diagnostic_quiz", u, "access_denied")
    ELSE IF method = "GET"
    THEN Reply("diagnostic_quiz", u, "form")
    ELSE Go([pc |-> "diag_commit", user |-> u, form |-> form,
             score |-> RawScore(form),
             recommended_level |-> Recommend(RawScore(form))])

\* diagnostic_quiz up to the construction of the new record
DiagnosticGate(u, method, form) ==
    IF Role(u) # "student"
    THEN Reply("diagnostic_quiz", u, "access_denied")
    ELSE IF HasCompleted(u)
    THEN Reply("diagnostic_quiz", u, "already_completed")
    ELSE IF method = "GET"
    THEN Reply("diagnostic_quiz", u, "form")
    ELSE Go([pc |-> "diag_commit", user |-> u, form |-> form,
             score |-> RawScore(form),
             recommended_level |-> Recommend(RawScore(form))])

DiagnosticQuiz(u, method, form) ==
    /\ Free
    /\ Apply(DiagnosticGate(u, method, form))
    /\ UNCHANGED <<questions, diagnostics, attempts, now>>

\* db.session.add(new_attempt); db.session.commit(): nothing catches the
\* error of a refused insert.  completed_at, which no handler reads, is
\* left out of the row
DiagnosticCommit(r) ==
    /\ r \in InFlight("diag_commit")
    /\ IF UniqueViolation(r.user)
       THEN /\ last' = Reply("diagnostic_quiz", r.user, "integrity_error").reply
            /\ UNCHANGED diagnostics
       ELSE /\ diagnostics' = Append(diagnostics,
                   [student_id |-> r.user,
                    recommended_level |-> r.recommended_level])
            /\ last' = Reply("diagnostic_quiz", r.user, "diagnostic_saved").reply
    /\ Finish(r)
    /\ UNCHANGED <<questions, attempts, now>>

(* ------------------------------ start_quiz ---------------------------- *)

\* the handler taking a missing diagnostic for the column default
StartQuizGateOpen(u, order) ==
    IF Role(u) # "student"
    THEN Reply("start_quiz", u, "access_denied")
    ELSE IF ~HasCompleted(u)
    THEN Go([pc |-> "start_commit", user |-> u,
             quiz_questions |-> Assemble(questions, order, "intermediate")])
    ELSE IF Assemble(questions, order, RecommendedLevel(u)) = << >>
    THEN Reply("start_quiz", u, "no_questions")
    ELSE Go([pc |-> "start_commit", user |-> u,
             quiz_questions |->
                 Assemble(questions, order, RecommendedLevel(u))])

\* start_quiz up to the construction of the attempt: the gate, then the
\* quiz query.  The record the gate reads never changes afterwards, so the
\* two reads are taken at the moment of the second
StartQuizGate(u, order) ==
    IF Role(u) # "student"
    THEN Reply("start_quiz", u, "access_denied")
    ELSE IF ~HasCompleted(u)
    THEN Reply("start_quiz", u, "gate_not_satisfied")
    ELSE IF Assemble(questions, order, RecommendedLevel(u)) = << >>
    THEN Reply("start_quiz", u, "no_questions")
    ELSE Go([pc |-> "start_commit", user |-> u,
             quiz_questions |->
                 Assemble(questions, order, RecommendedLevel(u))])

StartQuiz(u, order) ==
    /\ Free
    /\ Apply(StartQuizGate(u, order))
    /\ UNCHANGED <<questions, diagnostics, attempts, now>>

\* db.session.add(attempt); db.session.commit(); render the quiz
StartQuizCommit(r) ==
    /\ r \in InFlight("start_commit")
    /\ now < MaxTime
    /\ now' = now + 1
    /\ attempts' = Append(attempts, NewAttempt(r.user, now))
    /\ last' = Reply("start_quiz", r.user, "quiz_started").reply
    /\ Finish(r)
    /\ UNCHANGED <<questions, diagnostics>>

(* ------------------------------ submit_quiz --------------------------- *)

\* the lookup answering a missing attempt as a submission
SubmitQuizLoadLax(aid, practice) ==
    IF aid \notin 1..Len(attempts)
    THEN Reply("submit_quiz", 0, "quiz_submitted")
    ELSE Go([pc |-> "submit_commit", attempt_id |-> aid,
             practice |-> practice, loaded |-> attempts[aid]])

\* submit_quiz up to QuizAttempt.query.get_or_404(attempt_id): the handler
\* reads no role and no account, so its response names no user
SubmitQuizLoad(aid, practice) ==
    IF aid \notin 1..Len(attempts)
    THEN Reply("submit_quiz", 0, "not_found")
    ELSE Go([pc |-> "submit_commit", attempt_id |-> aid,
             practice |-> practice, loaded |-> attempts[aid]])

SubmitQuiz(aid, practice) ==
    /\ Free
    /\ Apply(SubmitQuizLoad(aid, practice))
    /\ UNCHANGED <<questions, diagnostics, attempts, now>>

\* the commit with a submission that is no practice moving the student's
\* recommendation to hard
SubmitQuizCommitRelevel(r, score) ==
    /\ r \in InFlight("submit_commit")
    /\ score \in DrawScores(r.practice)
    /\ now < MaxTime
    /\ now' = now + 1
    /\ attempts' = [attempts EXCEPT ![r.attempt_id] =
           Flush(@, r.loaded,
                 [end_time |-> <<now>>, is_practice |-> r.practice,
                  score |-> score])]
    /\ diagnostics' = [i \in DOMAIN diagnostics |->
           IF diagnostics[i].student_id = r.loaded.student_id /\ ~r.practice
           THEN [diagnostics[i] EXCEPT !.recommended_level = "hard"]
           ELSE diagnostics[i]]
    /\ last' = Reply("submit_quiz", 0, "quiz_submitted").reply
    /\ Finish(r)
    /\ UNCHANGED questions

\* the commit with an UPDATE that names no row: every attempt is written
SubmitQuizCommitAll(r, score) ==
    /\ r \in InFlight("submit_commit")
    /\ score \in DrawScores(r.practice)
    /\ now < MaxTime
    /\ now' = now + 1
    /\ attempts' = [a \in DOMAIN attempts |->
           Flush(attempts[a], r.loaded,
                 [end_time |-> <<now>>, is_practice |-> r.practice,
                  score |-> score])]
    /\ last' = Reply("submit_quiz", 0, "quiz_submitted").reply
    /\ Finish(r)
    /\ UNCHANGED <<questions, diagnostics>>

\* the three assignments and db.session.commit()
SubmitQuizCommit(r, score) ==
    /\ r \in InFlight("submit_commit")
    /\ score \in DrawScores(r.practice)
    /\ now < MaxTime
    /\ now' = now + 1
    /\ attempts' = [attempts EXCEPT ![r.attempt_id] =
           Flush(@, r.loaded,
                 [end_time |-> <<now>>, is_practice |-> r.practice,
                  score |-> score])]
    /\ last' = Reply("submit_quiz", 0, "quiz_submitted").reply
    /\ Finish(r)
    /\ UNCHANGED <<questions, diagnostics>>

(* ---------------------------- specification --------------------------- *)

\* subject and grade of a posted question: the quiz's, and one off
SubjectGrades == {<<"Physics", "10th">>, <<"Math", "10th">>}
\* the value posted for the passage selection: none, or an id that is no
\* passage of the teacher
PassageInputs == {NULL, <<Len(questions) + 1>>}
\* an attempt id in a submit URL: an existing attempt, or one past the last
AttemptIds == 1..(Len(attempts) + 1)

Next ==
    \/ \E u \in Users, m \in {"GET", "POST"}, d \in Difficulties,
          sg \in SubjectGrades, pid \in PassageInputs :
          CreateQuestion(MaxQuestions, u, m, d, sg[1], sg[2], FALSE, pid)
    \/ \E u \in Users : StudentDashboard(u)
    \/ \E u \in Users, m \in {"GET", "POST"}, form \in Forms :
          DiagnosticQuiz(u, m, form)
    \/ \E r \in BagToSet(inflight) : DiagnosticCommit(r)
    \/ \E u \in Users, order \in ScanOrders(Len(questions)) :
          StartQuiz(u, order)
    \/ \E r \in BagToSet(inflight) : StartQuizCommit(r)
    \/ \E aid \in AttemptIds, p \in BOOLEAN : SubmitQuiz(aid, p)
    \/ \E r \in BagToSet(inflight), score \in {0} \cup RandInt(ScoreLo, ScoreHi) :
          SubmitQuizCommit(r, score)

Spec == Init /\ [][Next]_vars

(* ---------------- quiz assembly over a filled bank -------------------- *)

\* a bank a teacher has filled: Physics questions of grade 10th, as many
\* intermediate and hard ones together as a quiz holds, an easy and a
\* diagnostic one, and intermediate questions of another subject and grade
Preload ==
    [i \in 1..(QuizCap - 1) |->
        Question(1, "intermediate", "Physics", "10th", FALSE, NULL)]
    \o <<Question(1, "hard", "Physics", "10th", FALSE, NULL),
         Question(1, "easy", "Physics", "10th", FALSE, NULL),
         Question(1, "diagnostic", "Physics", "10th", FALSE, NULL),
         Question(1, "intermediate", "Math", "10th", FALSE, NULL),
         Question(1, "intermediate", "Physics", "9th", FALSE, NULL)>>

\* the student has completed the diagnostic with some level
InitAssemble ==
    /\ questions = SeedBank \o Preload
    /\ \E l \in Levels :
          diagnostics = <<[student_id |-> 2, recommended_level |-> l]>>
    /\ attempts = << >>
    /\ now = 0
    /\ inflight = EmptyBag
    /\ last = NoResp

\* difficulty, subject and grade of a question posted to the filled bank:
\* every difficulty for the quiz's subject and grade, and one off in either
BankInputs ==
    {<<d, "Physics", "10th">> : d \in Difficulties}
    \cup {<<"intermediate", "Math", "10th">>, <<"intermediate", "Physics", "9th">>}

NextAssemble ==
    \/ \E k \in BankInputs :
          CreateQuestion(Len(Preload) + MaxBankNew, 1, "POST",
                         k[1], k[2], k[3], FALSE, NULL)
    \/ \E u \in Students, order \in ScanOrders(Len(questions)) :
          StartQuiz(u, order)
    \/ \E r \in BagToSet(inflight) : StartQuizCommit(r)

SpecAssemble == InitAssemble /\ [][NextAssemble]_vars

(* ------------------- submissions of a started attempt ----------------- *)

\* the student has completed the diagnostic and started one quiz; the clock
\* has MaxSubmits readings left, whatever MaxTime is
InitSubmit ==
    /\ questions = SeedBank
    /\ diagnostics = <<[student_id |-> 2, recommended_level |-> "intermediate"]>>
    /\ attempts = <<NewAttempt(2, MaxTime - MaxSubmits - 1)>>
    /\ now = MaxTime - MaxSubmits
    /\ inflight = EmptyBag
    /\ last = NoResp

NextSubmit ==
    \/ \E aid \in AttemptIds, p \in BOOLEAN : SubmitQuiz(aid, p)
    \/ \E r \in BagToSet(inflight), score \in {0} \cup RandInt(ScoreLo, ScoreHi) :
          SubmitQuizCommit(r, score)

SpecSubmit == InitSubmit /\ [][NextSubmit]_vars

(* ------------------------- passages in the bank ----------------------- *)

\* the difficulty posted with a question of the passage bank
BankDifficulties == {"easy", "hard"}

\* the value posted for the passage selection: none, a seeded question
\* (no passage), any question created since, or an id past the last
BankPassageInputs ==
    {NULL, <<1>>}
    \cup {<<i>> : i \in (SeedCount + 1)..(Len(questions) + 1)}

NextBank ==
    \E u \in Users, m \in {"GET", "POST"}, d \in BankDifficulties,
       isp \in BOOLEAN, pid \in BankPassageInputs :
       CreateQuestion(MaxPassageBank, u, m, d, "Physics", "10th", isp, pid)

SpecBank == Init /\ [][NextBank]_vars

(* ------------------------------- claims ------------------------------- *)

\* the gate's state of a student, read off the stored records
DiagnosticRows(s) == {i \in DOMAIN diagnostics : diagnostics[i].student_id = s}
Completed(s) == DiagnosticRows(s) # {}
LevelsOf(s) == {diagnostics[i].recommended_level : i \in DiagnosticRows(s)}

\* a request leaves, or enters, the requests in flight in this step
Finishes(r) == CopiesIn(r, inflight') < CopiesIn(r, inflight)
Enters(r) == CopiesIn(r, inflight') > CopiesIn(r, inflight)

\* a response of the handler op to user s is sent in this step
Answers(op, s) == last' # last /\ last'.op = op /\ last'.user = s

\* the questions of the bank that match the quiz of student s
QuizMatches(s) ==
    {i \in DOMAIN questions :
        /\ questions[i].difficulty \in LevelsOf(s) \cup {"intermediate"}
        /\ questions[i].subject = "Physics"
        /\ questions[i].grade = "10th"}

\* what one step may do to the gate of a student
C1_Step ==
    \A s \in Students :
        /\ (~Completed(s) /\ Completed(s)') =>
              /\ last' = [op |-> "diagnostic_quiz", user |-> s,
                          outcome |-> "diagnostic_saved"]
              /\ Cardinality(DiagnosticRows(s)') = 1
        /\ Answers("student_dashboard", s) =>
              last'.outcome = IF Completed(s) THEN "completed"
                              ELSE "not_completed"
        /\ Completed(s) =>
              /\ \A r \in BagToSet(inflight') :
                    (r.pc = "diag_commit" /\ r.user = s) => ~Enters(r)
              /\ (Answers("diagnostic_quiz", s) /\ inflight' = inflight) =>
                    last'.outcome = "already_completed"
              /\ DiagnosticRows(s)' = DiagnosticRows(s)
              /\ LevelsOf(s)' = LevelsOf(s)

(* C1: a student is not completed before any diagnostic submission; the    *)
(* student becomes completed only by a submission that is saved, with one  *)
(* record; once completed, the dashboard and the diagnostic handler report *)
(* it, every later submission is answered "already completed" without      *)
(* reaching a commit, and the student's record and level stay as they are. *)
C1_DiagnosticOnce ==
    /\ \A s \in Students : ~Completed(s)
    /\ [][C1_Step]_vars

\* a completed student has posted the diagnostic again and was turned away
C1_Witness ==
    \E s \in Students :
        /\ Completed(s)
        /\ last = [op |-> "diagnostic_quiz", user |-> s,
                   outcome |-> "already_completed"]

(* C2: when two diagnostic submissions of one student interleave, the one  *)
(* that commits second ends "already completed", and one record with the   *)
(* winner's level survives.                                                *)
C2_RaceLoserAlreadyCompleted ==
    [][\A r \in InFlight("diag_commit") :
          (Finishes(r) /\ Completed(r.user)) =>
              /\ last'.outcome = "already_completed"
              /\ Cardinality(DiagnosticRows(r.user)') = 1
              /\ LevelsOf(r.user)' = LevelsOf(r.user)]_vars

(* C3: a submit issued on an attempt that is already submitted is rejected *)
(* as already completed and changes no attempt.                            *)
C3_ResubmitRejected ==
    [][\A r \in InFlight("submit_commit") :
          (Finishes(r) /\ r.loaded.end_time # NULL) =>
              /\ last'.outcome = "already_completed"
              /\ attempts' = attempts]_vars

(* C4: of two interleaved submits of one attempt, both issued while it was *)
(* started, the one that commits after the attempt has been submitted      *)
(* assigns no score.                                                       *)
C4_ScoredOnce ==
    [][\A r \in InFlight("submit_commit") :
          (/\ Finishes(r)
           /\ r.loaded.end_time = NULL
           /\ attempts[r.attempt_id].end_time # NULL) =>
              attempts'[r.attempt_id].score = attempts[r.attempt_id].score]_vars

(* C5: a quiz start by a student without a diagnostic record is answered   *)
(* "gate not satisfied", reaches no commit and leaves the attempts as they *)
(* are.                                                                    *)
C5_GateBlocksStart ==
    [][\A s \in Students :
          ~Completed(s) =>
              /\ Answers("start_quiz", s) =>
                    /\ last'.outcome = "gate_not_satisfied"
                    /\ attempts' = attempts
              /\ \A r \in BagToSet(inflight') :
                    (r.pc = "start_commit" /\ r.user = s) => ~Enters(r)]_vars

\* a student without a record has asked for a quiz and was sent to the gate
C5_Witness ==
    \E s \in Students :
        /\ ~Completed(s)
        /\ attempts = << >>
        /\ last = [op |-> "start_quiz", user |-> s,
                   outcome |-> "gate_not_satisfied"]

(* C6: a diagnostic record, once stored, stays in place unchanged, and no  *)
(* further record is stored for its student, whatever request follows.     *)
C6_RecordImmutable ==
    [][/\ \A i \in DOMAIN diagnostics :
             i \in DOMAIN diagnostics' /\ diagnostics'[i] = diagnostics[i]
       /\ \A s \in Students :
             Completed(s) =>
                 /\ DiagnosticRows(s)' = DiagnosticRows(s)
                 /\ LevelsOf(s)' = LevelsOf(s)]_vars

\* a record has outlived a question creation, a quiz start, a submission
\* and a second diagnostic submission that lost the race
C6_Witness ==
    \E s \in Students :
        /\ Completed(s)
        /\ Len(questions) > SeedCount
        /\ \E a \in DOMAIN attempts : attempts[a].end_time # NULL
        /\ \E r \in InFlight("diag_commit") : r.user = s

\* the number of fields of a form whose name begins with answer_
TaggedCount(form) ==
    Cardinality({k \in form :
        /\ Len(k) >= 7
        /\ <<k[1], k[2], k[3], k[4], k[5], k[6], k[7]>>
              = <<"a", "n", "s", "w", "e", "r", "_">>})

\* the recommendation the specification gives for a raw score
LevelFor(n) ==
    CASE n >= 4 -> "hard"
      [] n >= 2 /\ n < 4 -> "intermediate"
      [] n < 2 -> "easy"

(* C7: the level a saved diagnostic submission stores is the one the raw   *)
(* score of its form gives: hard from 4 tagged fields on, intermediate for *)
(* 2 and 3, easy below; it is never 'diagnostic'.                          *)
C7_LevelFromScore ==
    [][\A r \in InFlight("diag_commit") :
          (Finishes(r) /\ Len(diagnostics') > Len(diagnostics)) =>
              LET row == diagnostics'[Len(diagnostics')]
              IN  /\ row.student_id = r.user
                  /\ row.recommended_level = LevelFor(TaggedCount(r.form))
                  /\ row.recommended_level # "diagnostic"]_vars

\* a submission of four answer fields has been saved as hard
C7_Witness ==
    /\ last.outcome = "diagnostic_saved"
    /\ Len(diagnostics) = 1
    /\ diagnostics[1].recommended_level = "hard"

(* C8: the questions assembled for a quiz start are at most 10, each of    *)
(* the student's level or intermediate, of subject Physics and grade 10th; *)
(* none is a diagnostic question.                                          *)
C8_AssembledSet ==
    \A r \in InFlight("start_commit") :
        /\ Len(r.quiz_questions) <= 10
        /\ \A k \in DOMAIN r.quiz_questions :
              /\ r.quiz_questions[k] \in QuizMatches(r.user)
              /\ questions[r.quiz_questions[k]].difficulty # "diagnostic"

\* a quiz of ten questions has been cut out of a bank holding more matches,
\* next to a question the filter leaves out
C8_Witness ==
    \E r \in InFlight("start_commit") :
        /\ Len(r.quiz_questions) = 10
        /\ Cardinality(QuizMatches(r.user)) > 10
        /\ LevelsOf(r.user) = {"hard"}
        /\ \E i \in DOMAIN questions :
              /\ questions[i].subject = "Physics"
              /\ questions[i].grade = "10th"
              /\ questions[i].difficulty = "easy"

\* what one step may do to the attempts when a quiz is started
C9_Step ==
    /\ \A s \in Students :
          /\ (Answers("start_quiz", s) /\ last'.outcome = "no_questions") =>
                /\ QuizMatches(s) = {}
                /\ attempts' = attempts
                /\ inflight' = inflight
          /\ (Completed(s) /\ QuizMatches(s) = {}) =>
                \A r \in BagToSet(inflight') :
                    (r.pc = "start_commit" /\ r.user = s) => ~Enters(r)
    /\ \A r \in InFlight("start_commit") :
          Finishes(r) =>
              /\ r.quiz_questions # << >>
              /\ last'.outcome = "quiz_started"
              /\ attempts' = Append(attempts,
                     [student_id |-> r.user, subject |-> "Physics",
                      start_time |-> now, end_time |-> NULL,
                      is_practice |-> FALSE, score |-> 0])
    /\ Len(attempts') # Len(attempts) =>
          \E r \in InFlight("start_commit") : Finishes(r)

(* C9: a quiz start that finds no matching question is answered "no        *)
(* questions" and stores no attempt; one that finds some stores exactly    *)
(* one attempt, of the requesting student, started, with end_time null,    *)
(* is_practice false and score 0; attempts are created in no other way.    *)
C9_StartOutcome == [][C9_Step]_vars

\* a quiz has been started and its attempt is stored as started
C9_Witness ==
    /\ last.outcome = "quiz_started"
    /\ Len(attempts) = 1
    /\ attempts[1].end_time = NULL

(* C10: every attempt whose is_practice flag is set has score 0.           *)
C10_PracticeScoreZero ==
    \A a \in DOMAIN attempts : attempts[a].is_practice => attempts[a].score = 0

\* an attempt is submitted once its end_time is set
Submitted(a) == attempts[a].end_time # NULL

(* C11: every submitted attempt that is not a practice attempt has a score *)
(* from 50 to 95.                                                          *)
C11_ScoreInRange ==
    \A a \in DOMAIN attempts :
        (Submitted(a) /\ ~attempts[a].is_practice) =>
            attempts[a].score \in ScoreLo..ScoreHi

(* C12: every passage has an empty passage_id, and every passage_id that   *)
(* is set names a question of the bank that is a passage.                  *)
C12_PassageForest ==
    \A i \in DOMAIN questions :
        /\ questions[i].is_passage => questions[i].passage_id = NULL
        /\ questions[i].passage_id # NULL =>
              /\ questions[i].passage_id[1] \in DOMAIN questions
              /\ questions[questions[i].passage_id[1]].is_passage

\* the bank holds two passages and a question attached to the first
C12_Witness ==
    \E i, j, k \in DOMAIN questions :
        /\ i < j
        /\ questions[i].is_passage
        /\ questions[j].is_passage
        /\ questions[k].passage_id = <<i>>

\* the passage selection of a request names no question of the bank, or
\* one that is no passage
BadPassageId(pid) ==
    /\ pid # NULL
    /\ \/ pid[1] \notin DOMAIN questions
       \/ ~questions[pid[1]].is_passage

(* C13: a question posted as a passage together with a passage selection,  *)
(* or posted with a selection that names no question or no passage, is     *)
(* refused as invalid and the bank stays as it is.                         *)
C13_BadLinkRefused ==
    [][\A u \in Teachers, d \in BankDifficulties, isp \in BOOLEAN,
         pid \in BankPassageInputs :
          (/\ CreateQuestion(MaxPassageBank, u, "POST", d, "Physics", "10th",
                             isp, pid)
           /\ (isp /\ pid # NULL) \/ BadPassageId(pid)) =>
              /\ last'.outcome = "form"
              /\ questions' = questions]_vars

\* the quiz of a request is one the quiz query can return on the bank as
\* it is now
AssembledNow(r) ==
    \E order \in ScanOrders(Len(questions)) :
        r.quiz_questions = Assemble(questions, order, RecommendedLevel(r.user))

(* C14: two quiz assemblies for one student over the same bank return the  *)
(* same questions in the same order.                                       *)
C14_AssemblyDeterministic ==
    \A r1, r2 \in InFlight("start_commit") :
        (r1.user = r2.user /\ AssembledNow(r1) /\ AssembledNow(r2)) =>
            r1.quiz_questions = r2.quiz_questions

(* C15: a submit that names no stored attempt is answered "not found",     *)
(* reaches no commit and leaves the attempts and the diagnostic records as *)
(* they are.                                                               *)
C15_MissingAttemptNotFound ==
    [][/\ \A aid \in AttemptIds, p \in BOOLEAN :
             (SubmitQuiz(aid, p) /\ aid \notin DOMAIN attempts) =>
                 /\ last' = [op |-> "submit_quiz", user |-> 0,
                             outcome |-> "not_found"]
                 /\ inflight' = inflight
       /\ last'.outcome = "not_found" =>
             /\ attempts' = attempts
             /\ diagnostics' = diagnostics]_vars

\* a submit of a missing attempt was turned away next to a submitted one
C15_Witness ==
    /\ last = [op |-> "submit_quiz", user |-> 0, outcome |-> "not_found"]
    /\ Len(attempts) = 1
    /\ Submitted(1)
    /\ Len(diagnostics) = 1

\* this step belongs to start_quiz or submit_quiz: it sends a response of
\* one of them, or takes one of their requests to its commit
LifecycleStep ==
    \/ last'.op \in {"start_quiz", "submit_quiz"}
    \/ \E r \in BagToSet(inflight') :
          r.pc \in {"start_commit", "submit_commit"} /\ Enters(r)

(* C16: no step of a quiz start or of a quiz submit, practice or not,      *)
(* changes the diagnostic records or the question bank.                    *)
C16_LifecycleFrame ==
    [][LifecycleStep => (diagnostics' = diagnostics /\ questions' = questions)]_vars

\* a practice submission has been committed for a student whose record is
\* in place, over a bank a teacher has added to
C16_Witness ==
    /\ Len(diagnostics) = 1
    /\ Len(questions) > SeedCount
    /\ last.outcome = "quiz_submitted"
    /\ \E a \in DOMAIN attempts :
          /\ Submitted(a)
          /\ attempts[a].is_practice
          /\ attempts[a].score = 0

\* an attempt that is not submitted holds the values it was created with
UnsubmittedAsCreated ==
    \A a \in DOMAIN attempts :
        ~Submitted(a) => (~attempts[a].is_practice /\ attempts[a].score = 0)

(* C17: an attempt that is not submitted has is_practice false and score   *)
(* 0, and the commit of a submit leaves the attempt with an end_time, the  *)
(* practice flag and a score of that submit, all three at once.            *)
C17_SubmitAtomic ==
    /\ []UnsubmittedAsCreated
    /\ [][\A r \in InFlight("submit_commit") :
             Finishes(r) =>
                 /\ attempts'[r.attempt_id].end_time # NULL
                 /\ attempts'[r.attempt_id].end_time
                       # attempts[r.attempt_id].end_time
                 /\ attempts'[r.attempt_id].is_practice = r.practice
                 /\ attempts'[r.attempt_id].score \in
                       (IF r.practice THEN {0} ELSE ScoreLo..ScoreHi)]_vars

(* C18: every quiz attempt belongs to a student who has a diagnostic       *)
(* record.                                                                 *)
C18_AttemptHasDiagnostic ==
    \A a \in DOMAIN attempts :
        \E i \in DOMAIN diagnostics :
            diagnostics[i].student_id = attempts[a].student_id

\* an attempt is stored while a diagnostic submission that lost the race
\* and a submit are in flight
C18_Witness ==
    /\ attempts # << >>
    /\ InFlight("diag_commit") # {}
    /\ InFlight("submit_commit") # {}

(* C19: the commit of a submit on attempt a leaves a's student_id, subject *)
(* and start_time, every other attempt and the number of attempts as they  *)
(* are, and the lookup of a submit changes no attempt.                     *)
C19_SubmitFrame ==
    [][/\ \A r \in InFlight("submit_commit") :
             Finishes(r) =>
                 /\ Len(attempts') = Len(attempts)
                 /\ \A b \in DOMAIN attempts :
                       b # r.attempt_id => attempts'[b] = attempts[b]
                 /\ attempts'[r.attempt_id].student_id
                       = attempts[r.attempt_id].student_id
                 /\ attempts'[r.attempt_id].subject
                       = attempts[r.attempt_id].subject
                 /\ attempts'[r.attempt_id].start_time
                       = attempts[r.attempt_id].start_time
       /\ (\E r \in BagToSet(inflight') :
              r.pc = "submit_commit" /\ Enters(r)) => attempts' = attempts]_vars

\* the first of two attempts has been submitted, the second is still
\* started
C19_Witness ==
    /\ Len(attempts) = 2
    /\ Submitted(1)
    /\ ~Submitted(2)
    /\ attempts[2].start_time > attempts[1].start_time
    /\ last.outcome = "quiz_submitted"

====
